---- MODULE Spec2Model ----
(***************************************************************************)
(* Model of the Olympic data standardization pipeline                      *)
(* (olympic_data_standardization.py) and of the feature derivations of     *)
(* olympic_analysis_utils.py.                                              *)
(*                                                                         *)
(* A table (pandas DataFrame) is a record [cols, rows]: cols is the set of *)
(* column names, rows the sequence of its rows in order.  A row is a       *)
(* record [idx, cells]: idx is the pandas index label the row got when the *)
(* file was read (filters keep it), cells maps each column to a cell.  A   *)
(* cell is NA (NaN), a number, or a string; strings are sequences of       *)
(* one-character strings so that pattern extraction and numeric parsing    *)
(* are computed character by character.                                    *)
(***************************************************************************)
EXTENDS Integers, Sequences, FiniteSets, TLC

VARIABLES
    files,            \* the four CSV files on disk that load_data reads
    athletes,         \* self.athletes
    hosts,            \* self.hosts
    medals,           \* self.medals
    programs,         \* self.programs
    active_athletes,  \* self.active_athletes (Unset until the attribute exists)
    pc,               \* the statement of run_full_standardization to run next
    trace,            \* the stages that have returned normally, in order
    err,              \* the exception that ended the run, "none" otherwise
    report,           \* what the stages have printed (counts and warnings)
    saved,            \* the files written by save_standardized_data
    features_in,      \* the table handed to the feature derivations
    country_features, \* the result of create_country_features
    medal_trends,     \* the result of create_medal_trends
    sport_strength    \* the result of create_sport_strength

vars == <<files, athletes, hosts, medals, programs, active_athletes, pc, trace,
          err, report, saved, features_in, country_features, medal_trends,
          sport_strength>>

-----------------------------------------------------------------------------
(* Cells *)

NA == [k |-> "na", n |-> 0, s |-> <<>>]

Num(x) == [k |-> "num", n |-> x, s |-> <<>>]

Str(t) == [k |-> "str", n |-> 0, s |-> t]

IsNA(v) == v.k = "na"

DigitChars == <<"0", "1", "2", "3", "4", "5", "6", "7", "8", "9">>

IsDigit(c) == \E i \in DOMAIN DigitChars : DigitChars[i] = c

DigitVal(c) == (CHOOSE i \in DOMAIN DigitChars : DigitChars[i] = c) - 1

RECURSIVE ParseDigits(_)
ParseDigits(t) ==
    IF Len(t) = 0 THEN 0
    ELSE ParseDigits(SubSeq(t, 1, Len(t) - 1)) * 10 + DigitVal(t[Len(t)])

AllDigits(t) == \A i \in DOMAIN t : IsDigit(t[i])

\* `sub in text` on Python strings
Contains(t, sub) ==
    \E i \in 1..(Len(t) - Len(sub) + 1) : SubSeq(t, i, i + Len(sub) - 1) = sub

\* The labels and codes of the data set, as character sequences
DisallowedPeriod == <<"1","9","0","6"," ","S","u","m","m","e","r"," ","O","l","y","m","p","i","c","s">>

L1940 == <<"1","9","4","0"," ","S","u","m","m","e","r"," ","O","l","y","m","p","i","c","s">>

L2020 == <<"2","0","2","0"," ","S","u","m","m","e","r"," ","O","l","y","m","p","i","c","s">>

D1940 == <<"1","9","4","0">>

D1944 == <<"1","9","4","4">>

S2024 == <<"2","0","2","4">>

SUnknown == <<"n","/","a">>

URS == <<"U","R","S">>

EUN == <<"E","U","N">>

GDR == <<"G","D","R">>

FRG == <<"F","R","G">>

RUS == <<"R","U","S">>

GER == <<"G","E","R">>

MIX == <<"M","I","X">>

USA == <<"U","S","A">>

-----------------------------------------------------------------------------
(* Tables *)

Table(c, r) == [cols |-> c, rows |-> r]

\* a derived table that has not been built
NotDerived == [columns |-> {"<unset>"}, rows |-> {}]

\* None / a missing attribute
Unset == [cols |-> {"<unset>"}, rows |-> <<>>]

HasCol(t, c) == c \in t.cols

Column(t, c) == [i \in DOMAIN t.rows |-> t.rows[i].cells[c]]

\* df[mask]: the rows that satisfy keep, in order, index labels kept
Filter(t, keep(_)) == Table(t.cols, SelectSeq(t.rows, keep))

\* df[c] = f(row) for every row; the column is added when it is new
Assign(t, c, f(_)) ==
    Table(t.cols \cup {c},
          [i \in DOMAIN t.rows |->
              [idx |-> t.rows[i].idx,
               cells |-> [d \in t.cols \cup {c} |->
                            IF d = c THEN f(t.rows[i]) ELSE t.rows[i].cells[d]]]])

IdxSet(t) == {t.rows[i].idx : i \in DOMAIN t.rows}

RowAt(t, ix) == t.rows[CHOOSE i \in DOMAIN t.rows : t.rows[i].idx = ix]

-----------------------------------------------------------------------------
(* Program constants *)

\* The stages with the files written before the validation
StageOrder_save_first == <<"load", "anomalies", "codes", "subset", "dual", "save", "validate">>

\* the stages of run_full_standardization, in the order it calls them
StageOrder == <<"load", "anomalies", "codes", "subset", "dual", "validate", "save">>

\* for col in ['year', 'edition_year', 'games_year']
YearColumns == <<"year", "edition_year", "games_year">>

\* cutoff_year=2020
CutoffYear == 2020

\* expected_gaps = [1940, 1944]
expected_gaps == {1940, 1944}

\* banned_codes = ['MIX', 'URS', 'GDR', 'FRG', 'EUN']
banned_codes == {MIX, URS, GDR, FRG, EUN}

\* for col in ['noc', 'medal', 'sport']
NullCheckColumns == {"noc", "medal", "sport"}

\* A slip this mapping invites: a deprecated code mapped onto another
\* deprecated code (GDR -> FRG), which one pass of replace leaves in place
country_mapping_chained ==
    (URS :> RUS) @@ (EUN :> RUS) @@ (GDR :> FRG) @@ (FRG :> GER)

country_mapping ==
    (URS :> RUS) @@ (EUN :> RUS) @@ (GDR :> GER) @@ (FRG :> GER)

-----------------------------------------------------------------------------
(* Conversions *)

\* Series.replace(country_mapping) on one cell: one pass, whole-cell match
ReplaceCode(v) ==
    IF v.k = "str" /\ v.s \in DOMAIN country_mapping
    THEN Str(country_mapping[v.s])
    ELSE v

\* .str.extract(r'(\d{4})').astype(float) on one cell: the first run of four
\* consecutive digits, NaN when there is none or the cell is NaN
ExtractYear(v) ==
    IF v.k # "str" THEN NA
    ELSE LET starts == {i \in 1..(Len(v.s) - 3) : AllDigits(SubSeq(v.s, i, i + 3))}
         IN  IF starts = {} THEN NA
             ELSE LET first == CHOOSE i \in starts : \A j \in starts : i <= j
                  IN  Num(ParseDigits(SubSeq(v.s, first, first + 3)))

\* pd.to_numeric(errors='coerce') on one cell: numbers stay, a string of
\* decimal digits is parsed, any other string becomes NaN
ToNumeric(v) ==
    IF v.k = "num" THEN v
    ELSE IF v.k = "str" /\ Len(v.s) > 0 /\ AllDigits(v.s) THEN Num(ParseDigits(v.s))
    ELSE NA

\* series >= cutoff on one cell: NaN compares False
AtLeast(v, cutoff) == v.k = "num" /\ v.n >= cutoff

-----------------------------------------------------------------------------
(* The stages, as functions of the tables they read.  Each returns the     *)
(* tables it leaves behind, the report with what it printed added, and err *)
(* = the exception it raised ("none" when it returned).  A stage that      *)
(* raises keeps the assignments it made before the raise.                  *)

NoReport ==
    [deleted_1906 |-> -1, deleted_medals_1906 |-> -1, gap_edition_warning |-> FALSE,
     mixed_team_count |-> -1, total_athletes |-> -1, active_count |-> -1,
     gap_years_checked |-> FALSE, gap_year_warnings |-> {},
     banned_warnings |-> {}, null_counts |-> <<>>]

Count(t, p(_)) == Len(SelectSeq(t.rows, p))

Values(t, c) == {t.rows[i].cells[c] : i \in DOMAIN t.rows}

\* df[df['edition'] != '1906 Summer Olympics']; NaN != label is True
remove_1906(t) == Filter(t, LAMBDA r : r.cells["edition"] # Str(DisallowedPeriod))

\* any('1940' in str(ed) for ed in editions_in_data); str(nan) is 'nan'
has_year(t, digits) ==
    \E v \in Values(t, "edition") : v.k = "str" /\ Contains(v.s, digits)

\* sorted(...) of the unique editions compares NaN (a float) with a str
sorted_raises(t) ==
    /\ \E v \in Values(t, "edition") : IsNA(v)
    /\ \E v \in Values(t, "edition") : ~IsNA(v)

handle_historical_anomalies(a, m, rep) ==
    IF ~HasCol(a, "edition")
    THEN [athletes |-> a, medals |-> m, report |-> rep, err |-> "KeyError"]
    ELSE LET a2 == remove_1906(a)
             m2 == IF HasCol(m, "edition") THEN remove_1906(m) ELSE m
             r2 == [rep EXCEPT
                      !.deleted_1906 = Len(a.rows) - Len(a2.rows),
                      !.deleted_medals_1906 =
                          IF HasCol(m, "edition") THEN Len(m.rows) - Len(m2.rows)
                          ELSE rep.deleted_medals_1906]
         IN  IF sorted_raises(a2)
             THEN [athletes |-> a2, medals |-> m2, report |-> r2, err |-> "TypeError"]
             ELSE [athletes |-> a2, medals |-> m2,
                   report |-> [r2 EXCEPT !.gap_edition_warning =
                                 has_year(a2, D1940) \/ has_year(a2, D1944)],
                   err |-> "none"]

\* df['noc'] = df['noc'].replace(country_mapping)
apply_mapping(t) == Assign(t, "noc", LAMBDA r : ReplaceCode(r.cells["noc"]))

\* The drop with the rows that have no code dropped as well
drop_mixed_and_missing(t) ==
    Filter(t, LAMBDA r : r.cells["noc"] # Str(MIX) /\ ~IsNA(r.cells["noc"]))

\* df[df['noc'] != 'MIX']; NaN != 'MIX' is True
drop_mixed(t) == Filter(t, LAMBDA r : r.cells["noc"] # Str(MIX))

consolidate(t) == drop_mixed(apply_mapping(t))

standardize_country_codes(a, m, rep) ==
    LET a2 == IF HasCol(a, "noc") THEN consolidate(a) ELSE a
        m2 == IF HasCol(m, "noc") THEN consolidate(m) ELSE m
        r2 == IF HasCol(a, "noc")
              THEN [rep EXCEPT !.mixed_team_count =
                       Count(apply_mapping(a), LAMBDA r : r.cells["noc"] = Str(MIX))]
              ELSE rep
    IN  [athletes |-> a2, medals |-> m2, report |-> r2,
         \* self.athletes['noc'].unique() after both tables were handled
         err |-> IF HasCol(a, "noc") THEN "none" ELSE "KeyError"]

\* the first of the recognized names that is a column, "" when none is
year_column(t) ==
    IF \E i \in DOMAIN YearColumns : HasCol(t, YearColumns[i])
    THEN YearColumns[CHOOSE i \in DOMAIN YearColumns :
                        /\ HasCol(t, YearColumns[i])
                        /\ \A j \in DOMAIN YearColumns : HasCol(t, YearColumns[j]) => i <= j]
    ELSE ""

\* the column create_active_athletes_subset filters on once it has run
resolved_column(t) == IF year_column(t) = "" THEN "year" ELSE year_column(t)

\* the .str accessor exists on a column read as text: one with a string in
\* it, or one of an empty file; a column read as all NaN is float64
str_accessor_ok(src) ==
    src.rows = <<>> \/ \E v \in Values(src, "edition") : ~IsNA(v)

\* The filter with > where the code has >=
select_active_strict(t, yc, cutoff) ==
    Filter(t, LAMBDA r : r.cells[yc].k = "num" /\ r.cells[yc].n > cutoff)

\* df[df[yc] >= cutoff_year].copy()
select_active(t, yc, cutoff) == Filter(t, LAMBDA r : AtLeast(r.cells[yc], cutoff))

\* src is the athletes file as read (it fixes the dtype of the columns)
create_active_athletes_subset(a, src, old_active, rep, cutoff) ==
    IF year_column(a) = "" /\ ~HasCol(a, "edition")
    THEN [athletes |-> a, active |-> old_active, report |-> rep, err |-> "ValueError"]
    ELSE IF year_column(a) = "" /\ ~str_accessor_ok(src)
    THEN [athletes |-> a, active |-> old_active, report |-> rep, err |-> "AttributeError"]
    ELSE LET a1 == IF year_column(a) = ""
                   THEN Assign(a, "year", LAMBDA r : ExtractYear(r.cells["edition"]))
                   ELSE a
             yc == year_column(a1)
             a2 == Assign(a1, yc, LAMBDA r : ToNumeric(r.cells[yc]))
             act == select_active(a2, yc, cutoff)
         IN  IF Len(a2.rows) = 0
             \* active_count/total_athletes*100 divides by zero
             THEN [athletes |-> a2, active |-> act, report |-> rep,
                   err |-> "ZeroDivisionError"]
             ELSE [athletes |-> a2, active |-> act,
                   report |-> [rep EXCEPT !.total_athletes = Len(a2.rows),
                                          !.active_count = Len(act.rows)],
                   err |-> "none"]

\* sorted(self.athletes['year'].dropna().unique())
years_present(t) == {v.n : v \in {w \in Values(t, "year") : w.k = "num"}}

validate_data_quality(a, rep) ==
    IF HasCol(a, "year") /\ years_present(a) = {}
    \* min(years) of an empty list
    THEN [report |-> rep, err |-> "ValueError"]
    ELSE LET r1 == IF HasCol(a, "year")
                   THEN [rep EXCEPT !.gap_years_checked = TRUE,
                                    !.gap_year_warnings = expected_gaps \cap years_present(a)]
                   ELSE rep
             r2 == IF HasCol(a, "noc")
                   THEN [r1 EXCEPT !.banned_warnings =
                            {c \in banned_codes : Str(c) \in Values(a, "noc")}]
                   ELSE r1
             r3 == [r2 EXCEPT !.null_counts =
                      [c \in NullCheckColumns \cap a.cols |->
                          Count(a, LAMBDA r : IsNA(r.cells[c]))]]
         IN  [report |-> r3, err |-> "none"]

save_standardized_data(a, h, m, p, act) ==
    LET main == ("athletes_standardized" :> a) @@ ("hosts_standardized" :> h)
                @@ ("medals_standardized" :> m) @@ ("programs_standardized" :> p)
    IN  IF act # Unset THEN main @@ ("active_athletes" :> act) ELSE main

-----------------------------------------------------------------------------
(* The input files.  The inputs come in three families; in each, one kind  *)
(* of column (the period label, the entity code, the year sources) takes   *)
(* its values from a rich set and the column sets that matter to it vary,  *)
(* while the other columns hold an ordinary value.  The four files hold at *)
(* most MaxRows rows together.                                             *)

MaxRows == 2

Family(c) == IF c \in {"year", "edition_year", "games_year"} THEN "year" ELSE c

RichCells(c) ==
    CASE c = "edition" -> {Str(DisallowedPeriod), Str(L1940), Str(L2020), NA}
      [] c = "noc" -> {Str(URS), Str(EUN), Str(GDR), Str(FRG), Str(MIX), Str(USA), NA}
      [] c = "year" -> {Num(1940), Num(2016), Num(2020), Str(S2024), Str(SUnknown), NA}
      [] c = "edition_year" -> {Num(1940), Num(2020)}
      [] c = "games_year" -> {Num(1944), Num(2020)}

PlainCells(c) ==
    CASE c = "edition" -> {Str(L2020)}
      [] c = "noc" -> {Str(USA)}
      [] OTHER -> {Num(2020)}

Cells(rich, c) == IF Family(c) = rich THEN RichCells(c) ELSE PlainCells(c)

\* rich: the kind of column that varies; athletes, medals, others: the
\* column sets of the athletes file, the medals file, the hosts and programs files
Families ==
    {[rich |-> "edition",
      athletes |-> {{"edition", "noc", "year"}, {"edition", "noc"}, {"noc", "year"}},
      medals |-> {{"edition", "noc"}, {"noc"}},
      others |-> {{"edition"}, {}}],
     [rich |-> "noc",
      athletes |-> {{"edition", "noc", "year"}, {"edition", "noc"}, {"edition", "year"}},
      medals |-> {{"edition", "noc"}, {"edition"}, {"noc"}, {}},
      others |-> {{"edition"}}],
     [rich |-> "year",
      athletes |-> {{"edition", "noc", "year"}, {"edition", "noc"},
                    {"edition", "noc", "edition_year"}, {"edition", "noc", "games_year"},
                    {"edition", "noc", "year", "edition_year"},
                    {"edition", "noc", "edition_year", "games_year"},
                    {"noc", "year"}, {"noc"}, {"edition", "year"}, {"edition"}},
      medals |-> {{"edition", "noc"}},
      others |-> {{"edition"}}]}

RowCells(cols, rich) ==
    {[c \in cols |-> g[c]] :
        g \in [edition : Cells(rich, "edition"), noc : Cells(rich, "noc"),
               year : Cells(rich, "year"), edition_year : Cells(rich, "edition_year"),
               games_year : Cells(rich, "games_year")]}

\* the files with n rows and the columns cols; read_csv numbers the rows from 0
FilesWith(cols, rich, n) ==
    {Table(cols, [i \in 1..n |-> [idx |-> i - 1, cells |-> rs[i]]]) :
        rs \in [1..n -> RowCells(cols, rich)]}

Init ==
    /\ \E f \in Families, na, nm, nh, np \in 0..MaxRows :
         /\ na + nm + nh + np <= MaxRows
         /\ \E ca \in f.athletes, cm \in f.medals, ch \in f.others, cp \in f.others :
              \E fa \in FilesWith(ca, f.rich, na), fm \in FilesWith(cm, f.rich, nm),
                 fh \in FilesWith(ch, f.rich, nh), fp \in FilesWith(cp, f.rich, np) :
                 files = [athletes |-> fa, hosts |-> fh, medals |-> fm, programs |-> fp]
    /\ athletes = Unset
    /\ hosts = Unset
    /\ medals = Unset
    /\ programs = Unset
    /\ active_athletes = Unset
    /\ pc = StageOrder[1]
    /\ trace = <<>>
    /\ err = "none"
    /\ report = NoReport
    /\ saved = <<>>
    /\ features_in = Unset
    /\ country_features = <<>>
    /\ medal_trends = NotDerived
    /\ sport_strength = NotDerived

-----------------------------------------------------------------------------
(* run_full_standardization, one action per call it makes *)

NextStage(stage) ==
    LET i == CHOOSE j \in DOMAIN StageOrder : StageOrder[j] = stage
    IN  IF i = Len(StageOrder) THEN "done" ELSE StageOrder[i + 1]

\* the call returned (e = "none") or raised e, which ends the run
Outcome(stage, e) ==
    /\ pc' = IF e = "none" THEN NextStage(stage) ELSE "aborted"
    /\ trace' = IF e = "none" THEN Append(trace, stage) ELSE trace
    /\ err' = e

LoadData ==
    /\ pc = "load"
    /\ athletes' = files.athletes
    /\ hosts' = files.hosts
    /\ medals' = files.medals
    /\ programs' = files.programs
    /\ Outcome("load", "none")
    /\ UNCHANGED <<files, active_athletes, report, saved, features_in, country_features,
                   medal_trends, sport_strength>>

HandleHistoricalAnomalies ==
    /\ pc = "anomalies"
    /\ LET res == handle_historical_anomalies(athletes, medals, report)
       IN  /\ athletes' = res.athletes
           /\ medals' = res.medals
           /\ report' = res.report
           /\ Outcome("anomalies", res.err)
    /\ UNCHANGED <<files, hosts, programs, active_athletes, saved, features_in,
                   country_features, medal_trends, sport_strength>>

StandardizeCountryCodes ==
    /\ pc = "codes"
    /\ LET res == standardize_country_codes(athletes, medals, report)
       IN  /\ athletes' = res.athletes
           /\ medals' = res.medals
           /\ report' = res.report
           /\ Outcome("codes", res.err)
    /\ UNCHANGED <<files, hosts, programs, active_athletes, saved, features_in,
                   country_features, medal_trends, sport_strength>>

CreateActiveAthletesSubset ==
    /\ pc = "subset"
    /\ LET res == create_active_athletes_subset(athletes, files.athletes,
                                                active_athletes, report, CutoffYear)
       IN  /\ athletes' = res.athletes
           /\ active_athletes' = res.active
           /\ report' = res.report
           /\ Outcome("subset", res.err)
    /\ UNCHANGED <<files, hosts, medals, programs, saved, features_in, country_features,
                   medal_trends, sport_strength>>

\* prints a note only
HandleDualNationalityMedals ==
    /\ pc = "dual"
    /\ Outcome("dual", "none")
    /\ UNCHANGED <<files, athletes, hosts, medals, programs, active_athletes, report,
                   saved, features_in, country_features, medal_trends, sport_strength>>

ValidateDataQuality ==
    /\ pc = "validate"
    /\ LET res == validate_data_quality(athletes, report)
       IN  /\ report' = res.report
           /\ Outcome("validate", res.err)
    /\ UNCHANGED <<files, athletes, hosts, medals, programs, active_athletes, saved,
                   features_in, country_features, medal_trends, sport_strength>>

SaveStandardizedData ==
    /\ pc = "save"
    /\ saved' = save_standardized_data(athletes, hosts, medals, programs, active_athletes)
    /\ Outcome("save", "none")
    /\ UNCHANGED <<files, athletes, hosts, medals, programs, active_athletes, report,
                   features_in, country_features, medal_trends, sport_strength>>

Next ==
    \/ LoadData
    \/ HandleHistoricalAnomalies
    \/ StandardizeCountryCodes
    \/ CreateActiveAthletesSubset
    \/ HandleDualNationalityMedals
    \/ ValidateDataQuality
    \/ SaveStandardizedData

Spec == Init /\ [][Next]_vars

-----------------------------------------------------------------------------
(* The feature derivations of olympic_analysis_utils.py, applied to any    *)
(* table of at most MaxRows rows.                                          *)

Judo == <<"J","u","d","o">>

Final == <<"F","i","n","a","l">>

Gold == <<"G","o","l","d">>

Silver == <<"S","i","l","v","e","r">>

Bronze == <<"B","r","o","n","z","e">>

FeatureColumns == {"noc", "sport", "event", "medal"}

FeatureCells(c) ==
    CASE c = "noc" -> {Str(USA), Str(RUS), NA}
      [] c = "sport" -> {Str(Judo), NA}
      [] c = "event" -> {Str(Final)}
      [] c = "medal" -> {Str(Gold), Str(Bronze), NA}

FeatureInputs(cols, n) ==
    {Table(cols, [i \in 1..n |-> [idx |-> i - 1, cells |-> rs[i]]]) :
        rs \in [1..n -> {[c \in cols |-> g[c]] :
                           g \in [noc : FeatureCells("noc"), sport : FeatureCells("sport"),
                                  event : FeatureCells("event"),
                                  medal : FeatureCells("medal")]}]}

\* Series.unique(): the distinct cells in order of first appearance, NaN
\* (once) among them
unique(t, c) ==
    LET firsts == SelectSeq(t.rows,
                    LAMBDA r : \A j \in DOMAIN t.rows :
                        t.rows[j].cells[c] = r.cells[c] => t.rows[j].idx >= r.idx)
    IN  [i \in DOMAIN firsts |-> firsts[i].cells[c]]

\* Series.nunique(): the number of distinct cells that are not NaN
nunique(t, c) == Cardinality({v \in Values(t, c) : ~IsNA(v)})

\* df[df[c] == v]: NaN == NaN is False, so no row matches a NaN key
rows_equal(t, c, v) == Filter(t, LAMBDA r : ~IsNA(v) /\ r.cells[c] = v)

\* the dict built for one key of the loop
country_feat(t, noc) ==
    LET country_data == rows_equal(t, "noc", noc)
        feat == [noc |-> noc,
                 athlete_count |-> Len(country_data.rows),
                 unique_sports |-> IF HasCol(t, "sport") THEN nunique(country_data, "sport")
                                   ELSE 0,
                 unique_events |-> IF HasCol(t, "event") THEN nunique(country_data, "event")
                                   ELSE 0]
        medal_rows == Filter(country_data, LAMBDA r : ~IsNA(r.cells["medal"]))
    IN  IF HasCol(t, "medal")
        THEN feat @@ [gold_count |-> Count(medal_rows, LAMBDA r : r.cells["medal"] = Str(Gold)),
                      silver_count |-> Count(medal_rows, LAMBDA r : r.cells["medal"] = Str(Silver)),
                      bronze_count |-> Count(medal_rows, LAMBDA r : r.cells["medal"] = Str(Bronze)),
                      total_medals |-> Len(medal_rows.rows)]
        ELSE feat

create_country_features(active_df) ==
    IF ~HasCol(active_df, "noc")
    \* active_df['noc']
    THEN [features |-> <<>>, err |-> "KeyError"]
    ELSE LET keys == unique(active_df, "noc")
             features == [i \in DOMAIN keys |-> country_feat(active_df, keys[i])]
         IN  IF features = <<>>
             \* pd.DataFrame([]).set_index('noc')
             THEN [features |-> <<>>, err |-> "KeyError"]
             ELSE [features |-> features, err |-> "none"]

InitFeatures ==
    /\ \E cols \in SUBSET FeatureColumns, n \in 0..MaxRows :
          features_in \in FeatureInputs(cols, n)
    /\ files = [athletes |-> Unset, hosts |-> Unset, medals |-> Unset, programs |-> Unset]
    /\ athletes = Unset
    /\ hosts = Unset
    /\ medals = Unset
    /\ programs = Unset
    /\ active_athletes = Unset
    /\ pc = "features"
    /\ trace = <<>>
    /\ err = "none"
    /\ report = NoReport
    /\ saved = <<>>
    /\ country_features = <<>>
    /\ medal_trends = NotDerived
    /\ sport_strength = NotDerived

CreateCountryFeatures ==
    /\ pc = "features"
    /\ LET res == create_country_features(features_in)
       IN  /\ country_features' = res.features
           /\ err' = res.err
           /\ pc' = IF res.err = "none" THEN "features_done" ELSE "aborted"
    /\ UNCHANGED <<files, athletes, hosts, medals, programs, active_athletes, trace,
                   report, saved, features_in, medal_trends, sport_strength>>

NextFeatures == CreateCountryFeatures

SpecFeatures == InitFeatures /\ [][NextFeatures]_vars

-----------------------------------------------------------------------------
(* Properties *)

Ran(stage) == \E i \in DOMAIN trace : trace[i] = stage

\* the run ended in the call of this stage
Failed(stage) ==
    /\ pc = "aborted"
    /\ Len(trace) < Len(StageOrder)
    /\ StageOrder[Len(trace) + 1] = stage

HasPeriod(t, label) ==
    HasCol(t, "edition") /\ \E i \in DOMAIN t.rows : t.rows[i].cells["edition"] = Str(label)

GapYear(v) == v.k = "num" /\ v.n \in {1940, 1944}

\* C1: when the pipeline has completed, no table that has a period-label
\* column holds a row labelled '1906 Summer Olympics'.
C1_NoDisallowedPeriod ==
    pc = "done" =>
        \A t \in {athletes, hosts, medals, programs} : ~HasPeriod(t, DisallowedPeriod)

\* what C2 says of one table across standardize_country_codes
C2_Post(before, after) ==
    HasCol(before, "noc") =>
        /\ \A j \in DOMAIN after.rows :
              after.rows[j].cells["noc"] \notin
                  {Str(URS), Str(EUN), Str(GDR), Str(FRG), Str(MIX)}
        /\ IdxSet(after) \subseteq IdxSet(before)
        /\ \A i \in DOMAIN before.rows :
              LET r == before.rows[i]
                  c == r.cells["noc"]
              IN  /\ (c = Str(MIX)) <=> (r.idx \notin IdxSet(after))
                  /\ c \in {Str(URS), Str(EUN)} =>
                        RowAt(after, r.idx).cells["noc"] = Str(RUS)
                  /\ c \in {Str(GDR), Str(FRG)} =>
                        RowAt(after, r.idx).cells["noc"] = Str(GER)

\* C2: standardize_country_codes leaves, in the athletes and the medals table
\* that have a 'noc' column, no code among URS, EUN, GDR, FRG and MIX; it keeps
\* every row whose code was URS or EUN with the code RUS, every row whose code
\* was GDR or FRG with the code GER, and drops exactly the rows whose code is MIX.
C2_CodesConsolidated ==
    [][pc = "codes" => C2_Post(athletes, athletes') /\ C2_Post(medals, medals')]_vars

C2_Witness ==
    /\ pc = "subset"
    /\ HasCol(medals, "noc")
    /\ \E i, j \in DOMAIN files.athletes.rows :
          /\ files.athletes.rows[i].cells["noc"] = Str(FRG)
          /\ files.athletes.rows[j].cells["noc"] = Str(MIX)
          /\ IdxSet(athletes) = {files.athletes.rows[i].idx}
          /\ athletes.rows[1].cells["noc"] = Str(GER)

\* C3: when the pipeline has completed, the year column of the athletes
\* table holds neither 1940 nor 1944.
C3_NoGapYears ==
    pc = "done" /\ HasCol(athletes, "year") =>
        \A i \in DOMAIN athletes.rows : ~GapYear(athletes.rows[i].cells["year"])

\* a cell of the input that resolves to no year: as a year column's cell, NaN
\* or a string that is not a number; as a period label, NaN or no 4-digit token
NoYearIn(src, r) ==
    IF year_column(src) # ""
    THEN LET v == r.cells[year_column(src)]
         IN  v.k = "na" \/ (v.k = "str" /\ ~AllDigits(v.s))
    ELSE LET v == r.cells["edition"]
         IN  v.k = "na" \/ ~\E k \in 1..(Len(v.s) - 3) : AllDigits(SubSeq(v.s, k, k + 3))

\* C4: once create_active_athletes_subset has stored the subset, and until the
\* run ends, the subset is exactly the rows of the athletes table whose
\* resolved year is a number >= the cutoff, in their order; an input row with
\* a missing or unparseable year is not in the subset, its resolved year is
\* NaN (not zero), and it is in the athletes table unless the cleaning
\* stages removed it for its label or its code.
C4_ActiveSubsetExact ==
    active_athletes # Unset =>
        LET yc == resolved_column(athletes)
        IN  /\ active_athletes.cols = athletes.cols
            /\ active_athletes.rows =
                   SelectSeq(athletes.rows,
                       LAMBDA r : r.cells[yc].k = "num" /\ r.cells[yc].n >= CutoffYear)
            /\ \A i \in DOMAIN files.athletes.rows :
                  LET r == files.athletes.rows[i]
                  IN  NoYearIn(files.athletes, r) =>
                        /\ r.idx \notin IdxSet(active_athletes)
                        /\ r.idx \in IdxSet(athletes) <=>
                              /\ r.cells["edition"] # Str(DisallowedPeriod)
                              /\ r.cells["noc"] # Str(MIX)
                        /\ r.idx \in IdxSet(athletes) =>
                              RowAt(athletes, r.idx).cells[yc] = NA

C4_Witness ==
    /\ pc = "done"
    /\ HasCol(files.athletes, "year")
    /\ Len(athletes.rows) = 2
    /\ Len(active_athletes.rows) = 1
    /\ active_athletes.rows[1].cells["year"] = Num(CutoffYear)
    /\ \E i \in DOMAIN files.athletes.rows :
          /\ files.athletes.rows[i].cells["year"] = Str(SUnknown)
          /\ RowAt(athletes, files.athletes.rows[i].idx).cells["year"] = NA

\* C5: on the tables handle_historical_anomalies has just cleaned, a second
\* handle_historical_anomalies leaves the athletes and the medals table as
\* they are and reports 0 deleted rows; on the tables
\* standardize_country_codes has just cleaned, a second
\* standardize_country_codes leaves both tables as they are and reports 0
\* dropped rows.
C5_Idempotent ==
    /\ pc = "codes" =>
          LET again == handle_historical_anomalies(athletes, medals, report)
          IN  /\ again.athletes = athletes
              /\ again.medals = medals
              /\ again.report.deleted_1906 = 0
              /\ HasCol(medals, "edition") => again.report.deleted_medals_1906 = 0
    /\ pc = "subset" =>
          LET again == standardize_country_codes(athletes, medals, report)
          IN  /\ again.athletes = athletes
              /\ again.medals = medals
              /\ again.report.mixed_team_count = 0

C5_Witness ==
    /\ pc = "subset"
    /\ report.mixed_team_count > 0
    /\ \E i \in DOMAIN athletes.rows : athletes.rows[i].cells["noc"] = Str(GER)

\* C6: validate_data_quality never raises: no run ends in it.
C6_ValidatorNeverRaises == ~Failed("validate")

NoYearSource(t) ==
    /\ ~HasCol(t, "year")
    /\ ~HasCol(t, "edition_year")
    /\ ~HasCol(t, "games_year")
    /\ ~HasCol(t, "edition")

\* C7: files are written only when anomaly removal, code consolidation,
\* subsetting and validation have returned, in that order; and when the
\* athletes file has no year column and no period-label column, no stage from
\* the subsetting on returns, no file is written in any state of the run, and
\* the run cannot end but by an exception.
C7_SaveLastAndAbortClean ==
    /\ saved # <<>> =>
          /\ Ran("save")
          /\ \E i, j, k, l, m \in DOMAIN trace :
                /\ i < j /\ j < k /\ k < l /\ l < m
                /\ trace[i] = "anomalies" /\ trace[j] = "codes" /\ trace[k] = "subset"
                /\ trace[l] = "validate" /\ trace[m] = "save"
    /\ NoYearSource(files.athletes) =>
          /\ saved = <<>>
          /\ ~Ran("subset") /\ ~Ran("validate") /\ ~Ran("save")
          /\ pc # "done"
          /\ pc = "aborted" => err # "none"

C7_Witness ==
    /\ NoYearSource(files.athletes)
    /\ Len(files.athletes.rows) > 0
    /\ pc = "aborted"
    /\ saved = <<>>

\* C8: when the validator has returned, its gap-year check has passed (it
\* printed no gap-year warning) exactly when no row of the athletes table has
\* 1940 or 1944 as its resolved year.
C8_GapCheckOnResolvedYear ==
    Ran("validate") =>
        (report.gap_year_warnings = {}
            <=> \A i \in DOMAIN athletes.rows :
                    ~GapYear(athletes.rows[i].cells[resolved_column(athletes)]))

\* C9: the strength table has no two rows with the same entity code, and the
\* athlete_count of each row is the number of input rows that carry the
\* row's code.
C9_StrengthTableKeyed ==
    pc = "features_done" =>
        /\ \A i, j \in DOMAIN country_features :
              country_features[i].noc = country_features[j].noc => i = j
        /\ \A i \in DOMAIN country_features :
              country_features[i].athlete_count =
                  Cardinality({k \in DOMAIN features_in.rows :
                      features_in.rows[k].cells["noc"] = country_features[i].noc})

\* C10: standardize_country_codes does not fail on a table that lacks the
\* 'noc' column, whether that is the athletes or the medals table, and
\* leaves that table as it is.
C10_NoCodeColumnNoOp ==
    [][pc = "codes" =>
          /\ ~HasCol(athletes, "noc") => athletes' = athletes /\ err' = "none"
          /\ ~HasCol(medals, "noc") => medals' = medals /\ err' = "none"]_vars

-----------------------------------------------------------------------------
(* The pipeline on athletes files whose period labels hold one, no or two  *)
(* 4-digit tokens, with and without a year column.                         *)

L1996 == <<"1","9","9","6"," ","S","u","m","m","e","r"," ","G","a","m","e","s">>

LNoYear == <<"S","u","m","m","e","r"," ","O","l","y","m","p","i","c","s">>

LTwoYears == <<"2","0","2","0"," ","S","u","m","m","e","r"," ","O","l","y","m","p","i","c","s"," ","(","2","0","2","1",")">>

LabelCells(c) ==
    CASE c = "edition" -> {Str(L1996), Str(L2020), Str(LNoYear), Str(LTwoYears), NA}
      [] c = "noc" -> {Str(USA)}
      [] c = "year" -> {Num(2016), NA}

LabelInputs(cols, n) ==
    {Table(cols, [i \in 1..n |-> [idx |-> i - 1, cells |-> rs[i]]]) :
        rs \in [1..n -> {[c \in cols |-> g[c]] :
                           g \in [edition : LabelCells("edition"), noc : LabelCells("noc"),
                                  year : LabelCells("year")]}]}

InitLabels ==
    /\ \E cols \in {{"edition", "noc"}, {"edition", "noc", "year"}}, n \in 0..MaxRows :
          \E fa \in LabelInputs(cols, n) :
              files = [athletes |-> fa,
                       hosts |-> Table({"edition"}, <<>>),
                       medals |-> Table({"edition", "noc"}, <<>>),
                       programs |-> Table({"edition"}, <<>>)]
    /\ athletes = Unset
    /\ hosts = Unset
    /\ medals = Unset
    /\ programs = Unset
    /\ active_athletes = Unset
    /\ pc = StageOrder[1]
    /\ trace = <<>>
    /\ err = "none"
    /\ report = NoReport
    /\ saved = <<>>
    /\ features_in = Unset
    /\ country_features = <<>>
    /\ medal_trends = NotDerived
    /\ sport_strength = NotDerived

SpecLabels == InitLabels /\ [][Next]_vars

\* the places where a 4-digit token of the label starts: four digits with no
\* digit before and none after
TokenStarts(t) ==
    {i \in 1..(Len(t) - 3) :
        /\ AllDigits(SubSeq(t, i, i + 3))
        /\ i = 1 \/ ~IsDigit(t[i - 1])
        /\ i + 3 = Len(t) \/ ~IsDigit(t[i + 4])}

\* C11: when the athletes file has no year column, once the subsetting has
\* derived the year, the year of every row is the number of the one 4-digit
\* token of its period label, and missing when the label is missing or holds
\* no or several 4-digit tokens.
C11_YearFromOneToken ==
    active_athletes # Unset /\ year_column(files.athletes) = "" =>
        \A i \in DOMAIN athletes.rows :
            LET label == athletes.rows[i].cells["edition"]
                starts == IF label.k = "str" THEN TokenStarts(label.s) ELSE {}
            IN  athletes.rows[i].cells["year"] =
                    IF Cardinality(starts) = 1
                    THEN LET k == CHOOSE j \in starts : TRUE
                         IN  Num(ParseDigits(SubSeq(label.s, k, k + 3)))
                    ELSE NA

-----------------------------------------------------------------------------
(* The three feature derivations on any table of at most MaxRows rows, with *)
(* any of their columns missing.                                            *)

DeriveColumns == {"noc", "sport", "event", "medal", "year", "athlete_id"}

DeriveCells(c) ==
    CASE c = "noc" -> {Str(USA), Str(RUS), NA}
      [] c = "sport" -> {Str(Judo), NA}
      [] c = "event" -> {Str(Final)}
      [] c = "medal" -> {Str(Gold), Str(Bronze), NA}
      [] c = "year" -> {Num(2020), NA}
      [] c = "athlete_id" -> {Num(1)}

DeriveInputs(cols, n) ==
    {Table(cols, [i \in 1..n |-> [idx |-> i - 1, cells |-> rs[i]]]) :
        rs \in [1..n -> {[c \in cols |-> g[c]] :
                           g \in [noc : DeriveCells("noc"), sport : DeriveCells("sport"),
                                  event : DeriveCells("event"), medal : DeriveCells("medal"),
                                  year : DeriveCells("year"),
                                  athlete_id : DeriveCells("athlete_id")]}]}

\* pd.DataFrame()
EmptyFrame == [columns |-> {}, rows |-> {}]

\* df.groupby(by): the key tuples of the rows, a row with NaN in a key left out
group_keys(t, by) ==
    {[c \in by |-> t.rows[i].cells[c]] :
        i \in {j \in DOMAIN t.rows : \A c \in by : ~IsNA(t.rows[j].cells[c])}}

\* the rows of one group
group_rows(t, by, key) == Filter(t, LAMBDA r : \A c \in by : r.cells[c] = key[c])

create_medal_trends(athletes_df) ==
    IF HasCol(athletes_df, "medal") /\ HasCol(athletes_df, "year")
    THEN IF ~HasCol(athletes_df, "noc")
         \* groupby(['year', 'noc', 'medal'])
         THEN [frame |-> EmptyFrame, err |-> "KeyError"]
         ELSE LET medalists == Filter(athletes_df, LAMBDA r : ~IsNA(r.cells["medal"]))
                  by == {"year", "noc", "medal"}
              IN  [frame |->
                     [columns |-> {"year", "noc", "medal", "count"},
                      rows |-> {[year |-> k.year, noc |-> k.noc, medal |-> k.medal,
                                 count |-> Len(group_rows(medalists, by, k).rows)] :
                                   k \in group_keys(medalists, by)}],
                   err |-> "none"]
    ELSE [frame |-> EmptyFrame, err |-> "none"]

create_sport_strength(active_df) ==
    IF HasCol(active_df, "sport") /\ HasCol(active_df, "noc")
    THEN IF ~HasCol(active_df, "medal") \/ ~HasCol(active_df, "athlete_id")
         \* .agg({'medal': ..., 'athlete_id': ...}) names both columns, whichever
         \* function the conditional picked for 'athlete_id'
         THEN [frame |-> EmptyFrame, err |-> "KeyError"]
         ELSE LET by == {"noc", "sport"}
              IN  [frame |->
                     [columns |-> {"noc", "sport", "medals", "athletes"},
                      rows |-> {[noc |-> k.noc, sport |-> k.sport,
                                 medals |-> Count(group_rows(active_df, by, k),
                                                  LAMBDA r : ~IsNA(r.cells["medal"])),
                                 athletes |-> Count(group_rows(active_df, by, k),
                                                    LAMBDA r : ~IsNA(r.cells["athlete_id"]))] :
                                   k \in group_keys(active_df, by)}],
                   err |-> "none"]
    ELSE [frame |-> EmptyFrame, err |-> "none"]

InitDerive ==
    /\ \E cols \in SUBSET DeriveColumns, n \in 0..MaxRows :
          features_in \in DeriveInputs(cols, n)
    /\ files = [athletes |-> Unset, hosts |-> Unset, medals |-> Unset, programs |-> Unset]
    /\ athletes = Unset
    /\ hosts = Unset
    /\ medals = Unset
    /\ programs = Unset
    /\ active_athletes = Unset
    /\ pc = "features"
    /\ trace = <<>>
    /\ err = "none"
    /\ report = NoReport
    /\ saved = <<>>
    /\ country_features = <<>>
    /\ medal_trends = NotDerived
    /\ sport_strength = NotDerived

CreateMedalTrends ==
    /\ pc = "features"
    /\ LET res == create_medal_trends(features_in)
       IN  /\ medal_trends' = res.frame
           /\ err' = res.err
           /\ pc' = IF res.err = "none" THEN "trends_done" ELSE "aborted"
    /\ UNCHANGED <<files, athletes, hosts, medals, programs, active_athletes, trace,
                   report, saved, features_in, country_features, sport_strength>>

CreateSportStrength ==
    /\ pc = "features"
    /\ LET res == create_sport_strength(features_in)
       IN  /\ sport_strength' = res.frame
           /\ err' = res.err
           /\ pc' = IF res.err = "none" THEN "strength_done" ELSE "aborted"
    /\ UNCHANGED <<files, athletes, hosts, medals, programs, active_athletes, trace,
                   report, saved, features_in, country_features, medal_trends>>

NextDerive ==
    \/ CreateCountryFeatures
    \/ CreateMedalTrends
    \/ CreateSportStrength

SpecDerive == InitDerive /\ [][NextDerive]_vars

\* C12: on a table that has rows and the 'noc' column, each of the three
\* derivations returns, whichever of 'medal', 'sport', 'event', 'year' and
\* 'athlete_id' are missing; the strength rows carry the medal counts only
\* when there is a 'medal' column, the trend table is empty when 'medal' or
\* 'year' is missing, and the sport table is empty when 'sport' is missing.
C12_OptionalColumnsTolerated ==
    [][pc = "features" /\ HasCol(features_in, "noc") /\ features_in.rows # <<>> =>
          /\ err' = "none"
          /\ pc' = "features_done" =>
                \A i \in DOMAIN country_features' :
                    ("total_medals" \in DOMAIN country_features'[i])
                        <=> HasCol(features_in, "medal")
          /\ pc' = "trends_done" /\ ~(HasCol(features_in, "medal")
                                        /\ HasCol(features_in, "year")) =>
                medal_trends' = EmptyFrame
          /\ pc' = "strength_done" /\ ~HasCol(features_in, "sport") =>
                sport_strength' = EmptyFrame]_vars

====
